---- MODULE Spec2Model ----
(***************************************************************************)
(* Model of server.js: the /oauth2callback and /create-repo handlers, the  *)
(* Drive collector (collectDriveFiles) and the GitHub publisher            *)
(* (createGitHubRepoAndPush), together with the two remote services they   *)
(* talk to.  Strings are TLA+ strings (\o is JavaScript's +), byte buffers *)
(* are sequences of 0..255, base64 text is a sequence of characters.       *)
(***************************************************************************)
EXTENDS Integers, Sequences, FiniteSets, TLC

VARIABLES
    session,    \* req.session.googleTokens is set
    cancelled,  \* the caller has given up on the current request (connection closed)
    nreq,       \* number of /create-repo requests received so far
    pc,         \* position of the current /create-repo request
    req,        \* req.body of the current request
    resp,       \* the HTTP response of the current request
    err,        \* the exception thrown in the current request, if any
    stack,      \* activation records of walkFolder, innermost last
    results,    \* collectDriveFiles: results
    meta,       \* collectDriveFiles: meta
    blobs,      \* createGitHubRepoAndPush: blobs
    repoJson,   \* createGitHubRepoAndPush: repoJson
    treeJson,   \* createGitHubRepoAndPush: treeJson
    commitJson, \* createGitHubRepoAndPush: commitJson
    result,     \* the value createGitHubRepoAndPush returned
    log,        \* remote calls made by the current request, in order
    repos       \* the hosting service: repositories of the authenticated user

vars == <<session, cancelled, nreq, pc, req, resp, err, stack, results, meta, blobs,
          repoJson, treeJson, commitJson, result, log, repos>>

\* Number of /create-repo requests a behaviour may hold.
MaxRequests == 2

(***************************************************************************)
(* Generic helpers                                                         *)
(***************************************************************************)
Last(s) == s[Len(s)]

Front(s) == SubSeq(s, 1, Len(s) - 1)

Range(s) == {s[i] : i \in 1..Len(s)}

(***************************************************************************)
(* The source service (Google Drive): one store, several possible roots    *)
(***************************************************************************)
FolderMime == "application/vnd.google-apps.folder"
DocMime == "application/vnd.google-apps.document"
SheetMime == "application/vnd.google-apps.spreadsheet"
SlidesMime == "application/vnd.google-apps.presentation"

IdProj == "1ProjAbCdEfGhIjKlMnOpQrSt"
ProjUrl == "https://drive.google.com/drive/folders/1ProjAbCdEfGhIjKlMnOpQrSt?usp=sharing"

DriveIds == {IdProj, "idDocs", "idBudget", "idLogo", "idReadme", "idDeck",
             "idNote", "idEmpty", "idDup", "idA1", "idA2"}

\* name and mimeType of every node of the store
DriveNode(id) ==
    CASE id = IdProj     -> [id |-> id, name |-> "proj",     mimeType |-> FolderMime]
      [] id = "idDocs"   -> [id |-> id, name |-> "docs",     mimeType |-> FolderMime]
      [] id = "idBudget" -> [id |-> id, name |-> "budget",   mimeType |-> SheetMime]
      [] id = "idLogo"   -> [id |-> id, name |-> "logo.png", mimeType |-> "image/png"]
      [] id = "idReadme" -> [id |-> id, name |-> "readme",   mimeType |-> DocMime]
      [] id = "idDeck"   -> [id |-> id, name |-> "deck",     mimeType |-> SlidesMime]
      [] id = "idNote"   -> [id |-> id, name |-> "note.txt", mimeType |-> "text/plain"]
      [] id = "idEmpty"  -> [id |-> id, name |-> "empty",    mimeType |-> FolderMime]
      [] id = "idDup"    -> [id |-> id, name |-> "dup",      mimeType |-> FolderMime]
      [] id = "idA1"     -> [id |-> id, name |-> "a",        mimeType |-> "text/plain"]
      [] id = "idA2"     -> [id |-> id, name |-> "a",        mimeType |-> DocMime]

\* the pages in which the service lists the children of a folder
DrivePages(id) ==
    CASE id = IdProj    -> << <<"idDocs", "idLogo">>, <<"idReadme">> >>
      [] id = "idDocs"  -> << <<"idBudget">>, << >>, <<"idDeck">> >>
      [] id = "idEmpty" -> << << >> >>
      [] id = "idDup"   -> << <<"idA1", "idA2">> >>
      [] OTHER          -> << << >> >>

\* the stored bytes of every leaf
DriveBytes(id) ==
    CASE id = "idBudget" -> <<49, 44, 50>>
      [] id = "idLogo"   -> <<137, 80>>
      [] id = "idReadme" -> <<104>>
      [] id = "idDeck"   -> <<37, 80, 68, 70>>
      [] id = "idNote"   -> << >>
      [] id = "idA1"     -> <<255, 0, 254>>
      [] id = "idA2"     -> <<97>>
      [] OTHER           -> << >>

IsNative(mimeType) == mimeType \in {DocMime, SheetMime, SlidesMime}

\* files.export: the service renders a native document in the asked format
DriveExport(id, exportMime) ==
    CASE exportMime = "text/plain"      -> DriveBytes(id)
      [] exportMime = "text/csv"        -> DriveBytes(id) \o <<10>>
      [] exportMime = "application/pdf" -> <<37>> \o DriveBytes(id)
      [] OTHER                          -> << >>

\* what the source service may answer when it fails
DriveErrors == {"File not found", "Insufficient Permission"}


\* drive.files.list: one page of the children of folderId (pageToken 0 is "no token")
DriveList(folderId, pageToken) ==
    LET pages == DrivePages(folderId)
        idx == IF pageToken = 0 THEN 1 ELSE pageToken
    IN  [files |-> [i \in 1..Len(pages[idx]) |-> DriveNode(pages[idx][i])],
         nextPageToken |-> IF idx < Len(pages) THEN idx + 1 ELSE 0]

(***************************************************************************)
(* Inputs of the /create-repo form                                         *)
(***************************************************************************)
GithubTokens == {"", "ghp_tok"}
RepoNames == {"", "r1", " r1 ", "r2"}
DriveLinks == {"", ProjUrl, "idNote", "idEmpty", "idDup", "idGone"}

Bodies == [githubToken : GithubTokens, repoName : RepoNames, driveLinkOrId : DriveLinks]

NoBody == [githubToken |-> "", repoName |-> "", driveLinkOrId |-> ""]

\* String.prototype.trim on the form's inputs
Trim(s) == IF s = " r1 " THEN "r1" ELSE s

\* linkOrId.match(/[-\w]{25,}/): the first run of 25 or more word characters, "" if none
FolderMatch(linkOrId) ==
    CASE linkOrId = ProjUrl -> IdProj
      [] linkOrId = IdProj  -> IdProj
      [] OTHER              -> ""

extractDriveId(linkOrId) ==
    IF linkOrId = "" THEN ""
    ELSE IF FolderMatch(linkOrId) # "" THEN FolderMatch(linkOrId)
    ELSE linkOrId

(***************************************************************************)
(* Collector helpers                                                       *)
(***************************************************************************)
\* mutant: a spreadsheet is exported as plain text
pickExportMimeTypeSheetAsText(mimeType) ==
    IF mimeType = DocMime THEN "text/plain"
    ELSE IF mimeType = SheetMime THEN "text/plain"
    ELSE IF mimeType = SlidesMime THEN "application/pdf"
    ELSE ""

\* "" stands for null
pickExportMimeType(mimeType) ==
    IF mimeType = DocMime THEN "text/plain"
    ELSE IF mimeType = SheetMime THEN "text/csv"
    ELSE IF mimeType = SlidesMime THEN "application/pdf"
    ELSE ""

\* One remote call made by the current request and how it ended:
\* res is "ok", "rejected" (a non-2xx answer) or "threw" (the call raised)
\* ret is the value returned, txt the error text or payload of a failure
Call(op, id, arg, res, ret, txt) ==
    [op |-> op, id |-> id, arg |-> arg, res |-> res, ret |-> ret, txt |-> txt]

NoMeta == [id |-> "", name |-> "", mimeType |-> ""]

\* drive.files.get (metadata) and every way it can end
getMeta(id) ==
    {Call("getMeta", id, "", "threw", NoMeta, e) : e \in DriveErrors}
    \cup (IF id \in DriveIds THEN {Call("getMeta", id, "", "ok", DriveNode(id), "")} ELSE {})

\* drive.files.list for one page and every way it can end
listPage(folderId, pageToken) ==
    {Call("list", folderId, pageToken, "threw", [files |-> << >>, nextPageToken |-> 0], e) :
        e \in DriveErrors}
    \cup {Call("list", folderId, pageToken, "ok", DriveList(folderId, pageToken), "")}

\* the prefix walkFolder is called with for the root folder
RootPrefix(name) == name \o "/"

\* mutant: the recursive call drops the prefix of its caller
ChildPrefixDropsCaller(pathPrefix, name) == name \o "/"

\* the prefix walkFolder is called with for a folder child
ChildPrefix(pathPrefix, name) == pathPrefix \o name \o "/"

\* the path of the entry pushed for a leaf child
EntryPath(pathPrefix, name) == pathPrefix \o name

\* downloadFileAsBuffer: the content call it makes and every way it can end
downloadFileAsBuffer(id, mimeType) ==
    LET exportMime == pickExportMimeType(mimeType)
        known == id \in DriveIds
    IN  IF exportMime # ""
        THEN {Call("export", id, exportMime, "threw", << >>, e) : e \in DriveErrors}
             \cup (IF known /\ IsNative(DriveNode(id).mimeType)
                   THEN {Call("export", id, exportMime, "ok", DriveExport(id, exportMime), "")}
                   ELSE {})
        ELSE {Call("getMedia", id, "", "threw", << >>, e) : e \in DriveErrors}
             \cup (IF known /\ ~IsNative(DriveNode(id).mimeType)
                         /\ DriveNode(id).mimeType # FolderMime
                   THEN {Call("getMedia", id, "", "ok", DriveBytes(id), "")}
                   ELSE {})

\* mutant: the listing stops after its first page
MorePagesNever(pageToken) == FALSE

\* while (pageToken)
MorePages(pageToken) == pageToken # 0

\* an activation record of walkFolder
Frame(folderId, pathPrefix) ==
    [folderId |-> folderId, pathPrefix |-> pathPrefix, pageToken |-> 0,
     files |-> << >>, i |-> 1, phase |-> "list"]

\* walkFolder from the point it was resumed at up to its next remote call:
\* the end of the for loop, the do-while test, the return to the caller and
\* the recursive call on a folder child.  The result is the stack at the
\* next await; << >> when the outermost walkFolder has returned.
RECURSIVE Resume(_)
Resume(st) ==
    IF st = << >> THEN st
    ELSE LET top == Last(st) IN
         IF top.phase = "list" THEN st
         ELSE IF top.i > Len(top.files)
              THEN IF MorePages(top.pageToken)
                   THEN Front(st) \o <<[top EXCEPT !.phase = "list"]>>
                   ELSE IF Len(st) = 1 THEN << >>
                        ELSE LET caller == st[Len(st) - 1] IN
                             Resume(SubSeq(st, 1, Len(st) - 2)
                                    \o <<[caller EXCEPT !.i = caller.i + 1]>>)
              ELSE LET f == top.files[top.i] IN
                   IF f.mimeType = FolderMime
                   THEN st \o <<Frame(f.id, ChildPrefix(top.pathPrefix, f.name))>>
                   ELSE st


(***************************************************************************)
(* Publisher helpers                                                       *)
(***************************************************************************)
B64Alphabet ==
    <<"A","B","C","D","E","F","G","H","I","J","K","L","M","N","O","P",
      "Q","R","S","T","U","V","W","X","Y","Z","a","b","c","d","e","f",
      "g","h","i","j","k","l","m","n","o","p","q","r","s","t","u","v",
      "w","x","y","z","0","1","2","3","4","5","6","7","8","9","+","/">>

B64Char(n) == B64Alphabet[n + 1]

\* Buffer.prototype.toString("base64"): the text, as a sequence of characters
RECURSIVE Base64(_)
Base64(buf) ==
    IF Len(buf) = 0 THEN << >>
    ELSE IF Len(buf) = 1
         THEN <<B64Char(buf[1] \div 4), B64Char((buf[1] % 4) * 16), "=", "=">>
    ELSE IF Len(buf) = 2
         THEN <<B64Char(buf[1] \div 4),
                B64Char((buf[1] % 4) * 16 + buf[2] \div 16),
                B64Char((buf[2] % 16) * 4), "=">>
    ELSE <<B64Char(buf[1] \div 4),
           B64Char((buf[1] % 4) * 16 + buf[2] \div 16),
           B64Char((buf[2] % 16) * 4 + buf[3] \div 64),
           B64Char(buf[3] % 64)>>
         \o Base64(SubSeq(buf, 4, Len(buf)))

\* mutant: the reference stage throws with the text of the repository stage
FailureMessageRefAsRepo(stage, txt) ==
    CASE stage = "createRepo"   -> "Failed to create repo: " \o txt
      [] stage = "createBlob"   -> "Failed to create blob: " \o txt
      [] stage = "createTree"   -> "Failed to create tree: " \o txt
      [] stage = "createCommit" -> "Failed to create commit: " \o txt
      [] stage = "createRef"    -> "Failed to create repo: " \o txt

\* the message of the Error thrown when a stage's call is answered with a non-2xx status
FailureMessage(stage, txt) ==
    CASE stage = "createRepo"   -> "Failed to create repo: " \o txt
      [] stage = "createBlob"   -> "Failed to create blob: " \o txt
      [] stage = "createTree"   -> "Failed to create tree: " \o txt
      [] stage = "createCommit" -> "Failed to create commit: " \o txt
      [] stage = "createRef"    -> "Failed to create ref: " \o txt

\* mutant: the map starts at the second blob
treeItemsSkipFirst(bs) ==
    [k \in 1..(Len(bs) - 1) |->
        [path |-> bs[k + 1].path, mode |-> "100644", type |-> "blob", sha |-> bs[k + 1].sha]]

\* mutant: blobs are kept by path, a later blob of a path replaces the earlier one
treeItemsLastWins(bs) ==
    LET last == {i \in 1..Len(bs) : \A j \in (i + 1)..Len(bs) : bs[j].path # bs[i].path}
        kept[k \in 0..Len(bs)] ==
            IF k = 0 THEN << >>
            ELSE IF k \in last
                 THEN Append(kept[k - 1], [path |-> bs[k].path, mode |-> "100644",
                                           type |-> "blob", sha |-> bs[k].sha])
                 ELSE kept[k - 1]
    IN  kept[Len(bs)]

\* mutant: every path is paired with the reference of the next blob
treeItemsShifted(bs) ==
    [k \in 1..Len(bs) |->
        [path |-> bs[k].path, mode |-> "100644", type |-> "blob",
         sha |-> bs[(k % Len(bs)) + 1].sha]]

\* blobs.map(b => ({ path, mode, type, sha }))
treeItems(bs) ==
    [k \in 1..Len(bs) |-> [path |-> bs[k].path, mode |-> "100644", type |-> "blob", sha |-> bs[k].sha]]

\* mutant: the for loop is left after its first turn
BlobLoopDoneAfterFirst(bs, fs) == Len(bs) >= 1 \/ Len(fs) = 0

\* the for loop over files has run to its end
BlobLoopDone(bs, fs) == Len(bs) >= Len(fs)

\* the fixed message (the source writes an em dash where this text has a hyphen)
CommitMessage == "Initial commit - import from Google Drive"

(***************************************************************************)
(* The hosting service (GitHub)                                            *)
(***************************************************************************)
OwnerLogin == "octocat"

NameConflictPayload == "422 name already exists on this account"

RejectPayloads == {"401 Bad credentials", "500 Server Error"}

\* object names are hashes of the object's content
BlobSha(content) == <<"blob", content>>
TreeSha(items) == <<"tree", items>>
CommitSha(message, tree) == <<"commit", message, tree>>

NoSha == << >>

NewRepo(name) ==
    [html_url |-> "https://github.com/" \o OwnerLogin \o "/" \o name,
     blobs |-> {}, trees |-> {}, commits |-> {}, main |-> NoSha]

\* how the service may answer POST /user/repos
RepoAnswers(name) ==
    IF name \in DOMAIN repos
    THEN {[res |-> "rejected", txt |-> NameConflictPayload], [res |-> "threw", txt |-> ""]}
    ELSE {[res |-> "ok", txt |-> ""], [res |-> "threw", txt |-> ""]}
         \cup {[res |-> "rejected", txt |-> t] : t \in RejectPayloads}

\* how the service may answer a POST under /repos/:owner/:repo/git
GitAnswers ==
    {[res |-> "ok", txt |-> ""], [res |-> "threw", txt |-> ""]}
    \cup {[res |-> "rejected", txt |-> t] : t \in RejectPayloads}

(***************************************************************************)
(* Error handling of the /create-repo handler                              *)
(***************************************************************************)
NoErr == [name |-> "", message |-> ""]

\* String(err)
ErrString(e) == e.name \o ": " \o e.message

NoResp == [status |-> 0, headersSent |-> FALSE, body |-> << >>, ended |-> FALSE]

\* res.status(code).send(text) on a response whose head is not yet written
Send(code, text) == [status |-> code, headersSent |-> TRUE, body |-> <<text>>, ended |-> TRUE]

\* an exception e reaches the catch block: res.status(500).send(...) answers the
\* request when the head is not yet written; once it is written send() itself
\* throws, nothing catches that, and the response is left as it was
Throw(e) ==
    /\ err' = e
    /\ IF resp.headersSent
       THEN pc' = "unhandled" /\ resp' = resp
       ELSE pc' = "done" /\ resp' = Send(500, "Error: " \o ErrString(e))

Write(r, text) == [r EXCEPT !.body = Append(r.body, text)]

End(r) == [r EXCEPT !.ended = TRUE]


(***************************************************************************)
(* Initial state                                                           *)
(***************************************************************************)
NoRepoJson == [html_url |-> "", owner |-> [login |-> ""]]

Init ==
    /\ session = FALSE
    /\ cancelled = FALSE
    /\ nreq = 0
    /\ pc = "idle"
    /\ req = NoBody
    /\ resp = NoResp
    /\ err = NoErr
    /\ stack = << >>
    /\ results = << >>
    /\ meta = NoMeta
    /\ blobs = << >>
    /\ repoJson = NoRepoJson
    /\ treeJson = [sha |-> NoSha]
    /\ commitJson = [sha |-> NoSha]
    /\ result = [html_url |-> ""]
    /\ log = << >>
    /\ repos = [n \in {} |-> NewRepo(n)]

(***************************************************************************)
(* app.get("/oauth2callback")                                              *)
(***************************************************************************)
OAuthCallback ==
    /\ \E granted \in BOOLEAN : session' = (session \/ granted)
    /\ UNCHANGED <<cancelled, nreq, pc, req, resp, err, stack, results, meta, blobs,
                   repoJson, treeJson, commitJson, result, log, repos>>

(***************************************************************************)
(* app.post("/create-repo"): from the start to the first remote call       *)
(***************************************************************************)
CreateRepoRequest ==
    /\ pc \in {"idle", "done", "unhandled"}
    /\ nreq < MaxRequests
    /\ nreq' = nreq + 1
    /\ \E body \in Bodies :
        /\ req' = body
        /\ IF ~session
           THEN /\ resp' = Send(400, "You must sign in with Google first")
                /\ pc' = "done"
           ELSE IF body.githubToken = "" \/ body.repoName = "" \/ body.driveLinkOrId = ""
           THEN /\ resp' = Send(400, "Missing githubToken, repoName or driveLinkOrId")
                /\ pc' = "done"
           ELSE IF extractDriveId(body.driveLinkOrId) = ""
           THEN /\ resp' = Send(400, "Could not extract Drive ID from the provided link.")
                /\ pc' = "done"
           ELSE /\ resp' = [status |-> 200, headersSent |-> TRUE,
                            body |-> <<"<p>Collecting files from Google Drive</p>">>,
                            ended |-> FALSE]
                /\ pc' = "getMeta"
    /\ err' = NoErr
    /\ stack' = << >>
    /\ results' = << >>
    /\ meta' = NoMeta
    /\ blobs' = << >>
    /\ repoJson' = NoRepoJson
    /\ treeJson' = [sha |-> NoSha]
    /\ commitJson' = [sha |-> NoSha]
    /\ result' = [html_url |-> ""]
    /\ log' = << >>
    /\ cancelled' = FALSE
    /\ UNCHANGED <<session, repos>>

(***************************************************************************)
(* collectDriveFiles                                                       *)
(***************************************************************************)
DriveError(txt) == [name |-> "GaxiosError", message |-> txt]

\* mutant: a failed call ends the walk and the files collected so far are returned
CollectFailureReturnsPartial(a) ==
    /\ err' = err
    /\ pc' = "createRepo"
    /\ resp' = Write(resp, "<p>Collected " \o ToString(Len(results))
                           \o " file(s). Creating GitHub repo and pushing files...</p>")

\* a source-service call raised: nothing in collectDriveFiles catches it
CollectFailure(a) == Throw(DriveError(a.txt))

\* mutant: the outermost walkFolder never returns to collectDriveFiles
AfterCollectWalkNeverReturns(files, st) ==
    /\ err' = err
    /\ IF st # << >> \/ pc = "walk"
       THEN pc' = "walk" /\ resp' = resp
       ELSE IF Len(files) = 0
       THEN pc' = "done" /\ resp' = End(Write(resp, "<p>No files found.</p>"))
       ELSE /\ pc' = "createRepo"
            /\ resp' = Write(resp, "<p>Collected " \o ToString(Len(files))
                                   \o " file(s). Creating GitHub repo and pushing files...</p>")

\* mutant: the handler does not test files.length
AfterCollectNoEmptyCheck(files, st) ==
    /\ err' = err
    /\ IF st # << >>
       THEN pc' = "walk" /\ resp' = resp
       ELSE /\ pc' = "createRepo"
            /\ resp' = Write(resp, "<p>Collected " \o ToString(Len(files))
                                   \o " file(s). Creating GitHub repo and pushing files...</p>")

\* the handler after collectDriveFiles resumed: still walking (st is not empty),
\* or collectDriveFiles returned files and the handler goes on to its next call
AfterCollect(files, st) ==
    /\ err' = err
    /\ IF st # << >>
       THEN pc' = "walk" /\ resp' = resp
       ELSE IF Len(files) = 0
       THEN pc' = "done" /\ resp' = End(Write(resp, "<p>No files found.</p>"))
       ELSE /\ pc' = "createRepo"
            /\ resp' = Write(resp, "<p>Collected " \o ToString(Len(files))
                                   \o " file(s). Creating GitHub repo and pushing files...</p>")

\* const meta = await getMeta(driveId), and the branch on its mimeType
GetMeta ==
    /\ pc = "getMeta"
    /\ \E a \in getMeta(extractDriveId(req.driveLinkOrId)) :
        /\ log' = Append(log, a)
        /\ IF a.res = "ok"
           THEN /\ meta' = a.ret
                /\ err' = err
                /\ resp' = resp
                /\ IF a.ret.mimeType = FolderMime
                   THEN /\ stack' = <<Frame(extractDriveId(req.driveLinkOrId),
                                            RootPrefix(a.ret.name))>>
                        /\ pc' = "walk"
                   ELSE /\ stack' = stack
                        /\ pc' = "rootDownload"
           ELSE /\ CollectFailure(a)
                /\ UNCHANGED <<meta, stack>>
    /\ UNCHANGED <<session, cancelled, nreq, req, results, blobs, repoJson, treeJson,
                   commitJson, result, repos>>

\* the single-file branch: downloadFileAsBuffer(driveId, meta.mimeType) and the push
RootDownload ==
    /\ pc = "rootDownload"
    /\ \E a \in downloadFileAsBuffer(extractDriveId(req.driveLinkOrId), meta.mimeType) :
        /\ log' = Append(log, a)
        /\ IF a.res = "ok"
           THEN /\ results' = Append(results, [path |-> meta.name, buffer |-> a.ret])
                /\ AfterCollect(results', << >>)
           ELSE /\ CollectFailure(a)
                /\ UNCHANGED results
    /\ UNCHANGED <<session, cancelled, nreq, req, stack, meta, blobs, repoJson, treeJson,
                   commitJson, result, repos>>

\* walkFolder: drive.files.list for the next page of the innermost folder
ListChildren ==
    /\ pc = "walk"
    /\ stack # << >>
    /\ Last(stack).phase = "list"
    /\ LET top == Last(stack) IN
       \E a \in listPage(top.folderId, top.pageToken) :
        /\ log' = Append(log, a)
        /\ IF a.res = "ok"
           THEN /\ stack' = Resume(Front(stack) \o
                                   <<[top EXCEPT !.pageToken = a.ret.nextPageToken,
                                                 !.files = a.ret.files,
                                                 !.i = 1,
                                                 !.phase = "for"]>>)
                /\ AfterCollect(results, stack')
           ELSE /\ CollectFailure(a)
                /\ UNCHANGED stack
    /\ UNCHANGED <<session, cancelled, nreq, req, results, meta, blobs, repoJson, treeJson,
                   commitJson, result, repos>>

\* walkFolder: downloadFileAsBuffer for the leaf child the for loop is at, and the push
DownloadChild ==
    /\ pc = "walk"
    /\ stack # << >>
    /\ Last(stack).phase = "for"
    /\ LET top == Last(stack)
           f == top.files[top.i]
       IN
       \E a \in downloadFileAsBuffer(f.id, f.mimeType) :
        /\ log' = Append(log, a)
        /\ IF a.res = "ok"
           THEN /\ results' = Append(results, [path |-> EntryPath(top.pathPrefix, f.name),
                                               buffer |-> a.ret])
                /\ stack' = Resume(Front(stack) \o <<[top EXCEPT !.i = top.i + 1]>>)
                /\ AfterCollect(results', stack')
           ELSE /\ CollectFailure(a)
                /\ UNCHANGED <<results, stack>>
    /\ UNCHANGED <<session, cancelled, nreq, req, meta, blobs, repoJson, treeJson,
                   commitJson, result, repos>>


(***************************************************************************)
(* createGitHubRepoAndPush(githubToken.trim(), null, repoName.trim(), files) *)
(***************************************************************************)
\* the repoName argument
repoName == Trim(req.repoName)

\* the files argument
files == results

\* what fetch raises when the request does not get an answer
FetchError == [name |-> "FetchError", message |-> "request to https://api.github.com failed"]

\* mutant: the answer of the blob call is not tested, the publish goes on to the tree
StageFailureBlobUnchecked(stage, a) ==
    IF stage = "createBlob"
    THEN err' = err /\ resp' = resp /\ pc' = "createTree"
    ELSE Throw(IF a.res = "rejected"
               THEN [name |-> "Error", message |-> FailureMessage(stage, a.txt)]
               ELSE FetchError)

\* mutant: the answer of the repository call is not tested, the publish goes on to the blobs
StageFailureRepoUnchecked(stage, a) ==
    IF stage = "createRepo"
    THEN err' = err /\ resp' = resp /\ pc' = "createBlob"
    ELSE Throw(IF a.res = "rejected"
               THEN [name |-> "Error", message |-> FailureMessage(stage, a.txt)]
               ELSE FetchError)

\* mutant: the answer of the tree call is not tested, the publish goes on to the commit
StageFailureTreeUnchecked(stage, a) ==
    IF stage = "createTree"
    THEN err' = err /\ resp' = resp /\ pc' = "createCommit"
    ELSE Throw(IF a.res = "rejected"
               THEN [name |-> "Error", message |-> FailureMessage(stage, a.txt)]
               ELSE FetchError)

\* mutant: a stage whose call did not succeed is tried again
StageFailureRetry(stage, a) == err' = err /\ resp' = resp /\ pc' = pc

\* a stage's call did not succeed: the throw of that stage, or fetch's own exception
StageFailure(stage, a) ==
    Throw(IF a.res = "rejected"
          THEN [name |-> "Error", message |-> FailureMessage(stage, a.txt)]
          ELSE FetchError)

\* the part of the path of the Git data calls that names the repository
RepoPath == repoJson.owner.login \o "/" \o repoName

\* POST /user/repos
CreateRepository ==
    /\ pc = "createRepo"
    /\ \E a \in RepoAnswers(repoName) :
        /\ log' = Append(log, Call("createRepo", repoName, "", a.res, "", a.txt))
        /\ IF a.res = "ok"
           THEN /\ repos' = [n \in DOMAIN repos \cup {repoName} |->
                                IF n = repoName THEN NewRepo(n) ELSE repos[n]]
                /\ repoJson' = [html_url |-> NewRepo(repoName).html_url,
                                owner |-> [login |-> OwnerLogin]]
                /\ pc' = IF BlobLoopDone(blobs, files) THEN "createTree" ELSE "createBlob"
                /\ UNCHANGED <<err, resp>>
           ELSE /\ StageFailure("createRepo", a)
                /\ UNCHANGED <<repos, repoJson>>
    /\ UNCHANGED <<session, cancelled, nreq, req, stack, results, meta, blobs, treeJson,
                   commitJson, result>>

\* one turn of the for loop: POST .../git/blobs for the next file
CreateBlob ==
    /\ pc = "createBlob"
    /\ LET f == files[Len(blobs) + 1]
           b64 == Base64(f.buffer)
       IN
       \E a \in GitAnswers :
        /\ IF a.res = "ok"
           THEN /\ log' = Append(log, Call("createBlob", RepoPath, b64, a.res, BlobSha(b64), ""))
                /\ repos' = [repos EXCEPT ![repoName].blobs = @ \cup {BlobSha(b64)}]
                /\ blobs' = Append(blobs, [path |-> f.path, sha |-> BlobSha(b64)])
                /\ pc' = IF BlobLoopDone(blobs', files) THEN "createTree" ELSE "createBlob"
                /\ UNCHANGED <<err, resp>>
           ELSE /\ log' = Append(log, Call("createBlob", RepoPath, b64, a.res, NoSha, a.txt))
                /\ StageFailure("createBlob", a)
                /\ UNCHANGED <<repos, blobs>>
    /\ UNCHANGED <<session, cancelled, nreq, req, stack, results, meta, repoJson, treeJson,
                   commitJson, result>>

\* POST .../git/trees
CreateTree ==
    /\ pc = "createTree"
    /\ LET items == treeItems(blobs) IN
       \E a \in GitAnswers :
        /\ IF a.res = "ok"
           THEN /\ log' = Append(log, Call("createTree", RepoPath, items, a.res, TreeSha(items), ""))
                /\ repos' = [repos EXCEPT ![repoName].trees = @ \cup {TreeSha(items)}]
                /\ treeJson' = [sha |-> TreeSha(items)]
                /\ pc' = "createCommit"
                /\ UNCHANGED <<err, resp>>
           ELSE /\ log' = Append(log, Call("createTree", RepoPath, items, a.res, NoSha, a.txt))
                /\ StageFailure("createTree", a)
                /\ UNCHANGED <<repos, treeJson>>
    /\ UNCHANGED <<session, cancelled, nreq, req, stack, results, meta, blobs, repoJson,
                   commitJson, result>>

\* POST .../git/commits
CreateCommit ==
    /\ pc = "createCommit"
    /\ LET sha == CommitSha(CommitMessage, treeJson.sha) IN
       \E a \in GitAnswers :
        /\ IF a.res = "ok"
           THEN /\ log' = Append(log, Call("createCommit", RepoPath, treeJson.sha, a.res, sha, ""))
                /\ repos' = [repos EXCEPT ![repoName].commits = @ \cup {sha}]
                /\ commitJson' = [sha |-> sha]
                /\ pc' = "createRef"
                /\ UNCHANGED <<err, resp>>
           ELSE /\ log' = Append(log, Call("createCommit", RepoPath, treeJson.sha, a.res, NoSha, a.txt))
                /\ StageFailure("createCommit", a)
                /\ UNCHANGED <<repos, commitJson>>
    /\ UNCHANGED <<session, cancelled, nreq, req, stack, results, meta, blobs, repoJson,
                   treeJson, result>>

\* mutant: the returned object also counts the files that were published
ReturnValueWithCount(rj) == [html_url |-> rj.html_url, filesPublished |-> Len(files)]

\* return { html_url: repoJson.html_url }
ReturnValue(rj) == [html_url |-> rj.html_url]

\* POST .../git/refs, the return, and the handler's last write
CreateRef ==
    /\ pc = "createRef"
    /\ \E a \in GitAnswers :
        /\ log' = Append(log, Call("createRef", RepoPath,
                                   [ref |-> "refs/heads/main", sha |-> commitJson.sha],
                                   a.res, "", a.txt))
        /\ IF a.res = "ok"
           THEN /\ repos' = [repos EXCEPT ![repoName].main = commitJson.sha]
                /\ result' = ReturnValue(repoJson)
                /\ resp' = End(Write(resp, "<p>Done! Repo created: " \o repoJson.html_url \o "</p>"))
                /\ pc' = "done"
                /\ UNCHANGED err
           ELSE /\ StageFailure("createRef", a)
                /\ UNCHANGED <<repos, result>>
    /\ UNCHANGED <<session, cancelled, nreq, req, stack, results, meta, blobs, repoJson,
                   treeJson, commitJson>>

(***************************************************************************)
(* The caller of a running /create-repo request gives up: the connection   *)
(* closes.  This is the one cancellation signal that reaches the handler;  *)
(* the handler registers no listener on req or res and hands no signal to  *)
(* the Drive client or to fetch, so nothing but the flag changes.          *)
(***************************************************************************)
Running == pc \notin {"idle", "done", "unhandled"}

\* what an aborted fetch raises
AbortError == [name |-> "AbortError", message |-> "The operation was aborted."]

\* mutant: the signal aborts the outstanding call, which throws in the handler
CancelAbortsRun ==
    /\ Running
    /\ ~cancelled
    /\ cancelled' = TRUE
    /\ Throw(AbortError)
    /\ UNCHANGED <<session, nreq, req, stack, results, meta, blobs, repoJson,
                   treeJson, commitJson, result, log, repos>>

Cancel ==
    /\ Running
    /\ ~cancelled
    /\ cancelled' = TRUE
    /\ UNCHANGED <<session, nreq, pc, req, resp, err, stack, results, meta, blobs,
                   repoJson, treeJson, commitJson, result, log, repos>>

(***************************************************************************)
(* The whole program                                                       *)
(***************************************************************************)
Next ==
    \/ OAuthCallback
    \/ CreateRepoRequest
    \/ Cancel
    \/ GetMeta
    \/ RootDownload
    \/ ListChildren
    \/ DownloadChild
    \/ CreateRepository
    \/ CreateBlob
    \/ CreateTree
    \/ CreateCommit
    \/ CreateRef

Spec == Init /\ [][Next]_vars

\* one step of collectDriveFiles: the awaited Drive call returns or rejects
CollectStep == GetMeta \/ RootDownload \/ ListChildren \/ DownloadChild

\* every Drive call that collectDriveFiles awaits is eventually answered
FairSpec == Spec /\ WF_vars(CollectStep)


(***************************************************************************)
(* Vocabulary of the properties                                            *)
(***************************************************************************)
HostOps == {"createRepo", "createBlob", "createTree", "createCommit", "createRef"}

DriveOps == {"getMeta", "list", "export", "getMedia"}

ContentOps == {"export", "getMedia"}

IsHostCall(c) == c.op \in HostOps

IsBlobCall(c) == c.op = "createBlob"

IsContentCall(c) == c.op \in ContentOps

\* the hosting-service calls of the current request, in order
HostLog == SelectSeq(log, IsHostCall)

\* the createBlob calls of the current request, in order
BlobLog == SelectSeq(log, IsBlobCall)

\* the content calls of the current request, in order
ContentLog == SelectSeq(log, IsContentCall)

CountOp(op) == Cardinality({j \in 1..Len(log) : log[j].op = op})

B64Index(ch) == CHOOSE n \in 0..63 : B64Alphabet[n + 1] = ch

\* the bytes a base64 text stands for (RFC 4648, with padding)
RECURSIVE Base64Decode(_)
Base64Decode(t) ==
    IF Len(t) < 4 THEN << >>
    ELSE LET a == B64Index(t[1])
             b == B64Index(t[2])
         IN  IF t[3] = "=" THEN <<a * 4 + b \div 16>>
             ELSE IF t[4] = "="
                  THEN <<a * 4 + b \div 16, (b % 16) * 16 + B64Index(t[3]) \div 4>>
             ELSE <<a * 4 + b \div 16,
                    (b % 16) * 16 + B64Index(t[3]) \div 4,
                    (B64Index(t[3]) % 4) * 64 + B64Index(t[4])>>
                  \o Base64Decode(SubSeq(t, 5, Len(t)))

\* createGitHubRepoAndPush returned normally
Published == result.html_url # ""

(***************************************************************************)
(* C1: in every run of the publish, createRepository has succeeded before  *)
(* any createBlob is called; when createTree is called, one createBlob per *)
(* file of the file set has been made, in order, with that file's content, *)
(* and every one of them succeeded; createCommit is called only after a    *)
(* successful createTree, createRef only after a successful createCommit.  *)
(***************************************************************************)
C1_StageOrder ==
    \A j \in 1..Len(log) :
        /\ log[j].op = "createBlob" =>
              \E i \in 1..(j - 1) : log[i].op = "createRepo" /\ log[i].res = "ok"
        /\ log[j].op = "createTree" =>
              LET bc == SelectSeq(SubSeq(log, 1, j - 1), IsBlobCall) IN
              /\ Len(bc) = Len(files)
              /\ \A k \in 1..Len(bc) :
                    bc[k].res = "ok" /\ Base64Decode(bc[k].arg) = files[k].buffer
        /\ log[j].op = "createCommit" =>
              \E i \in 1..(j - 1) : log[i].op = "createTree" /\ log[i].res = "ok"
        /\ log[j].op = "createRef" =>
              \E i \in 1..(j - 1) : log[i].op = "createCommit" /\ log[i].res = "ok"

\* a publish of the four files under proj ran through all its stages
C1_Witness ==
    /\ Published
    /\ Len(files) = 4
    /\ Len(HostLog) = 8
    /\ Last(log).op = "createRef"

(***************************************************************************)
(* C2: once a createBlob call has failed, for whichever file, the run      *)
(* holds no createTree, createCommit or createRef call, and the publish    *)
(* has ended by throwing.                                                  *)
(***************************************************************************)
C2_BlobFailureStopsPublish ==
    \A j \in 1..Len(log) :
        (log[j].op = "createBlob" /\ log[j].res # "ok") =>
            /\ CountOp("createTree") = 0
            /\ CountOp("createCommit") = 0
            /\ CountOp("createRef") = 0
            /\ err # NoErr
            /\ ~Published
            /\ pc \in {"done", "unhandled"}

\* the createBlob call for the third of four files was rejected
C2_Witness ==
    /\ Len(files) = 4
    /\ Len(BlobLog) = 3
    /\ BlobLog[3].res = "rejected"
    /\ BlobLog[1].res = "ok" /\ BlobLog[2].res = "ok"

(***************************************************************************)
(* C3: a publish whose repoName already exists for the owner fails at the  *)
(* repository-creation call: the handler's run ends there with an          *)
(* exception, which for the service's rejection is the repository stage's  *)
(* failure carrying the name-conflict payload; the run holds no            *)
(* createBlob, createTree, createCommit or createRef call and the          *)
(* repository of that name is left as it was.                              *)
(***************************************************************************)
C3_NameConflict ==
    [][(pc = "createRepo" /\ repoName \in DOMAIN repos /\ log' # log) =>
          /\ Last(log').op = "createRepo"
          /\ Last(log').res # "ok"
          /\ pc' = "unhandled"
          /\ (Last(log').res = "rejected" =>
                err' = [name |-> "Error",
                        message |-> "Failed to create repo: " \o NameConflictPayload])
          /\ \A j \in 1..Len(log') :
                log'[j].op \notin {"createBlob", "createTree", "createCommit", "createRef"}
          /\ ~Published'
          /\ repos' = repos]_vars

\* the second request names the repository the first one published, and was rejected
C3_Witness ==
    /\ nreq = 2
    /\ pc = "unhandled"
    /\ Last(log).op = "createRepo"
    /\ Last(log).txt = NameConflictPayload
    /\ repoName \in DOMAIN repos
    /\ repos[repoName].main # NoSha
    /\ Len(HostLog) = 1

(***************************************************************************)
(* C4: when the publish of N files has returned, the run holds exactly one *)
(* createRepository call, N createBlob calls (the k-th with the content of *)
(* the k-th file), one createTree call, one createCommit call naming the   *)
(* tree that createTree returned and one createRef call pointing           *)
(* refs/heads/main at the commit that createCommit returned, all           *)
(* successful and in that order; the repository then holds one commit,     *)
(* main points at it, and its tree lists the N files at their paths with   *)
(* their contents.                                                         *)
(***************************************************************************)
C4_SuccessfulPublish ==
    Published =>
        LET n == Len(files)
            h == HostLog
        IN  /\ Len(h) = n + 4
            /\ \A j \in 1..Len(h) : h[j].res = "ok"
            /\ h[1].op = "createRepo" /\ h[1].id = repoName
            /\ \A k \in 1..n :
                  /\ h[k + 1].op = "createBlob"
                  /\ Base64Decode(h[k + 1].arg) = files[k].buffer
            /\ h[n + 2].op = "createTree"
            /\ h[n + 3].op = "createCommit" /\ h[n + 3].arg = h[n + 2].ret
            /\ h[n + 4].op = "createRef"
            /\ h[n + 4].arg = [ref |-> "refs/heads/main", sha |-> h[n + 3].ret]
            /\ repoName \in DOMAIN repos
            /\ repos[repoName].commits = {h[n + 3].ret}
            /\ repos[repoName].main = h[n + 3].ret
            /\ repos[repoName].trees = {h[n + 2].ret}
            /\ LET items == h[n + 2].arg IN
               /\ Len(items) = n
               /\ \A k \in 1..n :
                     /\ items[k].path = files[k].path
                     /\ items[k].sha = h[k + 1].ret
                     /\ items[k].sha \in repos[repoName].blobs

\* the two-file publish of the folder dup has returned
C4_Witness ==
    /\ Published
    /\ Len(files) = 2
    /\ pc = "done"
    /\ resp.ended


(***************************************************************************)
(* The source tree as the properties see it                                *)
(***************************************************************************)
\* the root the current request asks for
Root == extractDriveId(req.driveLinkOrId)

IsFolder(id) == DriveNode(id).mimeType = FolderMime

ChildrenOf(id) ==
    IF IsFolder(id)
    THEN UNION {Range(DrivePages(id)[p]) : p \in 1..Len(DrivePages(id))}
    ELSE {}

ParentOf(id) == CHOOSE f \in DriveIds : id \in ChildrenOf(f)

\* id and everything below it
RECURSIVE Subtree(_)
Subtree(id) == {id} \cup UNION {Subtree(c) : c \in ChildrenOf(id)}

FoldersUnder(id) == {n \in Subtree(id) : IsFolder(n)}

LeavesUnder(id) == {n \in Subtree(id) : ~IsFolder(n)}

\* the names on the way from root down to id, root's name first
RECURSIVE NamesTo(_, _)
NamesTo(root, id) ==
    IF id = root THEN <<DriveNode(id).name>>
    ELSE NamesTo(root, ParentOf(id)) \o <<DriveNode(id).name>>

RECURSIVE JoinSlash(_)
JoinSlash(names) ==
    IF Len(names) = 1 THEN names[1]
    ELSE names[1] \o "/" \o JoinSlash(Tail(names))

IsOkContentCall(c) == c.op \in ContentOps /\ c.res = "ok"

\* the content calls that returned bytes, in order
OkContentLog == SelectSeq(log, IsOkContentCall)

\* collectDriveFiles has returned to the handler (the handler has written its next line)
CollectReturned == resp.status = 200 /\ Len(resp.body) >= 2

\* the export format the specification fixes for a native type
SpecExportFormat(mimeType) ==
    CASE mimeType = "application/vnd.google-apps.document"     -> "text/plain"
      [] mimeType = "application/vnd.google-apps.spreadsheet"  -> "text/csv"
      [] mimeType = "application/vnd.google-apps.presentation" -> "application/pdf"

(***************************************************************************)
(* C5: the k-th collected entry belongs to the k-th leaf whose content was *)
(* fetched, and its path is the names from the root container down to     *)
(* that leaf joined by "/"; when the root is itself a leaf, the collection *)
(* returned is the single entry whose path is the leaf's bare name.        *)
(***************************************************************************)
C5_PathComposition ==
    /\ Len(results) = Len(OkContentLog)
    /\ \A k \in 1..Len(results) :
          results[k].path = JoinSlash(NamesTo(Root, OkContentLog[k].id))
    /\ (CollectReturned /\ ~IsFolder(Root)) =>
          /\ Len(results) = 1
          /\ results[1].path = DriveNode(Root).name

\* the walk of proj has returned; it holds a leaf two containers down and one in the root
C5_Witness ==
    /\ CollectReturned
    /\ \E k \in 1..Len(results) : results[k].path = "proj/docs/deck"
    /\ \E k \in 1..Len(results) : results[k].path = "proj/logo.png"

(***************************************************************************)
(* C6: no page of a folder is requested twice, a page token asked for is   *)
(* the nextPageToken an earlier listing of that folder reported, and when  *)
(* the walk of a container has returned, every page of every folder below  *)
(* the root was listed exactly once and every leaf below the root has      *)
(* exactly one entry in the collection, and there is no other entry.       *)
(***************************************************************************)
C6_PaginationComplete ==
    /\ \A i, j \in 1..Len(log) :
          (i < j /\ log[i].op = "list" /\ log[j].op = "list" /\ log[i].id = log[j].id)
              => log[i].arg # log[j].arg
    /\ \A j \in 1..Len(log) :
          (log[j].op = "list" /\ log[j].arg # 0) =>
              \E i \in 1..(j - 1) :
                  /\ log[i].op = "list" /\ log[i].id = log[j].id /\ log[i].res = "ok"
                  /\ log[i].ret.nextPageToken = log[j].arg
    /\ (CollectReturned /\ IsFolder(Root)) =>
          /\ \A f \in FoldersUnder(Root) :
                /\ \A p \in 1..Len(DrivePages(f)) :
                      Cardinality({j \in 1..Len(log) :
                                      /\ log[j].op = "list" /\ log[j].id = f
                                      /\ log[j].res = "ok"
                                      /\ log[j].arg = (IF p = 1 THEN 0 ELSE p)}) = 1
                /\ Cardinality({j \in 1..Len(log) : log[j].op = "list" /\ log[j].id = f})
                      = Len(DrivePages(f))
          /\ \A l \in LeavesUnder(Root) :
                Cardinality({k \in 1..Len(results) :
                                results[k].path = JoinSlash(NamesTo(Root, l))
                                /\ OkContentLog[k].id = l}) = 1
          /\ Len(results) = Cardinality(LeavesUnder(Root))

\* the walk of proj has returned: two pages of proj, three of docs, four leaves
C6_Witness ==
    /\ CollectReturned
    /\ Root = IdProj
    /\ CountOp("list") = 5
    /\ Len(results) = 4

(***************************************************************************)
(* C7: a failed getMetadata, listChildren or content call is the last      *)
(* remote call of the request: collectDriveFiles does not return, the      *)
(* handler ends with that call's exception, and the request holds no       *)
(* hosting-service call.                                                   *)
(***************************************************************************)
C7_CollectAllOrNothing ==
    \A j \in 1..Len(log) :
        (log[j].op \in DriveOps /\ log[j].res # "ok") =>
            /\ j = Len(log)
            /\ ~CollectReturned
            /\ err = [name |-> "GaxiosError", message |-> log[j].txt]
            /\ pc \in {"done", "unhandled"}
            /\ HostLog = << >>
            /\ ~Published

\* a content call failed after three files had been collected
C7_Witness ==
    /\ Len(results) = 3
    /\ Last(log).op \in ContentOps
    /\ Last(log).res = "threw"
    /\ pc = "unhandled"

(***************************************************************************)
(* C8: every content call is an export in the format the mapping fixes     *)
(* when the leaf is a document, a spreadsheet or a presentation, and a raw *)
(* read otherwise; no leaf has two content calls; the k-th entry holds the *)
(* bytes the k-th successful content call returned; and the payload of the *)
(* k-th createBlob call is the padded base64 text that decodes to exactly  *)
(* the bytes of the k-th file.                                             *)
(***************************************************************************)
C8_ContentFidelity ==
    /\ \A j \in 1..Len(log) :
          /\ log[j].op = "export" =>
                /\ IsNative(DriveNode(log[j].id).mimeType)
                /\ log[j].arg = SpecExportFormat(DriveNode(log[j].id).mimeType)
                /\ log[j].res = "ok" => log[j].ret = DriveExport(log[j].id, log[j].arg)
          /\ log[j].op = "getMedia" =>
                /\ ~IsNative(DriveNode(log[j].id).mimeType)
                /\ log[j].res = "ok" => log[j].ret = DriveBytes(log[j].id)
    /\ \A i, j \in 1..Len(ContentLog) : i < j => ContentLog[i].id # ContentLog[j].id
    /\ Len(results) = Len(OkContentLog)
    /\ \A k \in 1..Len(results) : results[k].buffer = OkContentLog[k].ret
    /\ CollectReturned => \A l \in LeavesUnder(Root) :
          \E k \in 1..Len(OkContentLog) : OkContentLog[k].id = l
    /\ \A k \in 1..Len(BlobLog) :
          /\ Base64Decode(BlobLog[k].arg) = OkContentLog[k].ret
          /\ Len(BlobLog[k].arg) = 4 * ((Len(OkContentLog[k].ret) + 2) \div 3)

\* the spreadsheet budget was exported as CSV and submitted as the blob MSwyCg==; the
\* presentation (as PDF) and the raw image followed
C8_Witness ==
    /\ \E j \in 1..Len(log) :
          /\ log[j].op = "export" /\ log[j].id = "idBudget"
          /\ log[j].arg = "text/csv" /\ log[j].res = "ok"
    /\ Len(BlobLog) >= 3
    /\ BlobLog[1].arg = <<"M", "S", "w", "y", "C", "g", "=", "=">>
    /\ BlobLog[2].arg = <<"J", "S", "V", "Q", "R", "E", "Y", "=">>
    /\ BlobLog[3].arg = <<"i", "V", "A", "=">>

(***************************************************************************)
(* C9: within one run createRepository, createTree, createCommit and       *)
(* createRef are each called at most once, the k-th createBlob call is for *)
(* the k-th file and there are no more createBlob calls than files, and    *)
(* every remote call but the last one of the run succeeded.                *)
(***************************************************************************)
C9_NoRetry ==
    /\ \A op \in {"createRepo", "createTree", "createCommit", "createRef"} : CountOp(op) <= 1
    /\ Len(BlobLog) <= Len(files)
    /\ \A k \in 1..Len(BlobLog) : Base64Decode(BlobLog[k].arg) = files[k].buffer
    /\ \A j \in 1..(Len(log) - 1) : log[j].res = "ok"
    /\ (log # << >> /\ Last(log).res # "ok") => pc \in {"done", "unhandled"}

\* the tree call of a four-file publish was rejected and the run ended there
C9_Witness ==
    /\ Len(BlobLog) = 4
    /\ Last(log).op = "createTree"
    /\ Last(log).res = "rejected"
    /\ pc = "unhandled"

(***************************************************************************)
(* C10: when a creation call is rejected, the exception of the run is an   *)
(* Error whose message is the rejected stage's own text followed by the    *)
(* payload of the answer; the messages of two different stages differ      *)
(* whatever their payloads, and those of two different payloads differ.    *)
(***************************************************************************)
StageText(op) ==
    CASE op = "createRepo"   -> "Failed to create repo: "
      [] op = "createBlob"   -> "Failed to create blob: "
      [] op = "createTree"   -> "Failed to create tree: "
      [] op = "createCommit" -> "Failed to create commit: "
      [] op = "createRef"    -> "Failed to create ref: "

AllPayloads == RejectPayloads \cup {NameConflictPayload, ""}

C10_StageNamedFailure ==
    /\ \A j \in 1..Len(log) :
          (log[j].op \in HostOps /\ log[j].res = "rejected") =>
              /\ j = Len(log)
              /\ err = [name |-> "Error", message |-> StageText(log[j].op) \o log[j].txt]
              /\ \A op \in HostOps \ {log[j].op} : \A t \in AllPayloads :
                    err.message # FailureMessage(op, t)
              /\ \A t \in AllPayloads \ {log[j].txt} :
                    err.message # FailureMessage(log[j].op, t)
    /\ \A j \in 1..Len(log) :
          (log[j].op \in HostOps /\ log[j].res = "threw") => err = FetchError

\* the reference call, the last of the run, was rejected
C10_Witness ==
    /\ log # << >>
    /\ Last(log).op = "createRef"
    /\ Last(log).res = "rejected"
    /\ Last(log).txt = "500 Server Error"
    /\ err.message = "Failed to create ref: 500 Server Error"

(***************************************************************************)
(* C11: when a call of a stage after the repository creation has failed,   *)
(* the repository and every object the run created are still on the        *)
(* hosting service, and the request has ended with a response that reports *)
(* the failure.                                                            *)
(***************************************************************************)
C11_PartialRepositoryReported ==
    \A j \in 1..Len(log) :
        (log[j].op \in HostOps \ {"createRepo"} /\ log[j].res # "ok") =>
            /\ repoName \in DOMAIN repos
            /\ \A i \in 1..(j - 1) :
                  /\ log[i].op = "createBlob" => log[i].ret \in repos[repoName].blobs
                  /\ log[i].op = "createTree" => log[i].ret \in repos[repoName].trees
                  /\ log[i].op = "createCommit" => log[i].ret \in repos[repoName].commits
            /\ resp.ended
            /\ Last(resp.body) = "Error: " \o ErrString(err)

\* one step of the running request: the next remote call is made and answered
RunStep ==
    \/ GetMeta \/ RootDownload \/ ListChildren \/ DownloadChild
    \/ CreateRepository \/ CreateBlob \/ CreateTree \/ CreateCommit \/ CreateRef

(***************************************************************************)
(* C12 as stated: from the step that raises the cancellation signal on,    *)
(* the request is no longer running, it carries a cancellation failure,    *)
(* and no further source-service or hosting-service call is made.          *)
(***************************************************************************)
C12_CancelAborts ==
    [][cancelled' => /\ ~Running'
                     /\ err' = AbortError
                     /\ (cancelled => log' = log)]_vars

(***************************************************************************)
(* C12 amended: the signal is ignored.  A request that is running when it  *)
(* is raised keeps running, its next remote call can still be made, and no *)
(* cancellation failure ever arises: a failure of a cancelled request is   *)
(* the failure of the last remote call it made.                            *)
(***************************************************************************)
C12_CancellationIgnored ==
    cancelled =>
        /\ Running => ENABLED (RunStep /\ Len(log') = Len(log) + 1)
        /\ err # AbortError
        /\ err # NoErr => log # << >> /\ Last(log).res # "ok"
        /\ ~Running /\ err = NoErr => resp.ended

\* the signal was raised before the first blob call, and the publish is about to make it
C12_Witness ==
    /\ cancelled
    /\ pc = "createBlob"
    /\ BlobLog = << >>
    /\ ENABLED CreateBlob

(***************************************************************************)
(* C13 as stated: the value a successful publish returns holds the URL the *)
(* repository-creation call answered and a field filesPublished equal to   *)
(* the number of files in the input sequence.                              *)
(***************************************************************************)
C13_PublishResult ==
    Published =>
        /\ result.html_url = repos[repoName].html_url
        /\ "filesPublished" \in DOMAIN result
        /\ result.filesPublished = Len(files)

(***************************************************************************)
(* C13 amended: the value a successful publish returns has one field, the  *)
(* URL the repository-creation call answered; it counts nothing.  The      *)
(* number of files reaches the caller only in the handler's progress line, *)
(* written before the publish starts.                                      *)
(***************************************************************************)
C13_PublishReturnsUrlOnly ==
    Published =>
        /\ DOMAIN result = {"html_url"}
        /\ result.html_url = repos[repoName].html_url
        /\ result.html_url = "https://github.com/" \o OwnerLogin \o "/" \o repoName
        /\ Last(resp.body) = "<p>Done! Repo created: " \o result.html_url \o "</p>"

\* the two-file folder idDup was published
C13_Witness ==
    /\ Published
    /\ req.driveLinkOrId = "idDup"
    /\ Len(files) = 2
    /\ result = [html_url |-> "https://github.com/" \o OwnerLogin \o "/r1"]

(***************************************************************************)
(* C14: in every collection collectDriveFiles returns, every entry's path  *)
(* is non-empty and no two entries have the same path.                     *)
(***************************************************************************)
C14_PathsNonEmptyAndDistinct ==
    CollectReturned =>
        /\ \A i \in 1..Len(results) : results[i].path # ""
        /\ \A i, j \in 1..Len(results) :
              results[i].path = results[j].path => i = j

IsTreeCall(c) == c.op = "createTree"

\* the createTree calls of the current request, in order
TreeLog == SelectSeq(log, IsTreeCall)

\* the entries of the tree request items that carry path p
EntriesAt(items, p) == {k \in 1..Len(items) : items[k].path = p}

(***************************************************************************)
(* C15 as stated: when two files given to the publish have the same path,  *)
(* the createTree request carries a single entry for that path, and its    *)
(* blob reference is the one the createBlob call of the later file         *)
(* returned.                                                               *)
(***************************************************************************)
C15_LastWriteWins ==
    \A t \in 1..Len(TreeLog) :
        \A i, j \in 1..Len(files) :
            (i < j /\ files[i].path = files[j].path
                   /\ \A l \in (j + 1)..Len(files) : files[l].path # files[j].path) =>
                LET at == EntriesAt(TreeLog[t].arg, files[j].path) IN
                /\ Cardinality(at) = 1
                /\ \A k \in at : TreeLog[t].arg[k].sha = BlobLog[j].ret

(***************************************************************************)
(* C15 amended: nothing is keyed by path.  When two files given to the     *)
(* publish have the same path, the createTree request carries one entry    *)
(* per file, in input order: the path occurs as often as it occurs in the  *)
(* input, and each of its entries refers to the blob of its own file.      *)
(***************************************************************************)
C15_DuplicatePathsAllSent ==
    \A t \in 1..Len(TreeLog) :
        LET items == TreeLog[t].arg IN
        /\ Len(items) = Len(files)
        /\ \A i, j \in 1..Len(files) :
              (i < j /\ files[i].path = files[j].path) =>
                  /\ {i, j} \subseteq EntriesAt(items, files[j].path)
                  /\ items[i].sha = BlobLog[i].ret
                  /\ items[j].sha = BlobLog[j].ret
                  /\ Cardinality(EntriesAt(items, files[j].path))
                        = Cardinality({l \in 1..Len(files) : files[l].path = files[j].path})

\* the tree request of the folder dup was made: two entries "dup/a" with different blobs
C15_Witness ==
    /\ Len(TreeLog) = 1
    /\ Len(files) = 2
    /\ files[1].path = "dup/a" /\ files[2].path = "dup/a"
    /\ Len(TreeLog[1].arg) = 2
    /\ TreeLog[1].arg[1].sha # TreeLog[1].arg[2].sha

(***************************************************************************)
(* C16: a publish makes at most one createTree request; the request holds  *)
(* exactly one entry per file of the input, in input order, with that      *)
(* file's path, mode "100644", type "blob" and the reference that the      *)
(* successful createBlob call carrying that same file's content returned.  *)
(***************************************************************************)
C16_TreeRequestEntries ==
    /\ Len(TreeLog) <= 1
    /\ \A t \in 1..Len(TreeLog) :
          LET items == TreeLog[t].arg IN
          /\ Len(items) = Len(files)
          /\ Len(BlobLog) = Len(files)
          /\ \A k \in 1..Len(files) :
                /\ BlobLog[k].res = "ok"
                /\ Base64Decode(BlobLog[k].arg) = files[k].buffer
                /\ items[k] = [path |-> files[k].path, mode |-> "100644",
                               type |-> "blob", sha |-> BlobLog[k].ret]

\* the tree request of the four-file folder proj was made, its blobs all different
C16_Witness ==
    /\ Len(TreeLog) = 1
    /\ Len(files) = 4
    /\ Len(TreeLog[1].arg) = 4
    /\ \A i, j \in 1..4 : TreeLog[1].arg[i].sha = TreeLog[1].arg[j].sha => i = j
    /\ TreeLog[1].arg[3].path = "proj/logo.png"

\* collectDriveFiles has been called and has neither returned nor thrown
Collecting == pc \in {"getMeta", "rootDownload", "walk"}

(***************************************************************************)
(* C17: over the finite acyclic trees of the store, with every Drive call  *)
(* eventually answered, a collect that has started always ends: it returns *)
(* a collection or it fails.                                               *)
(***************************************************************************)
C17_CollectTerminates == Collecting ~> ~Collecting

\* the walk of proj (a nested folder, listings of two and three pages) has returned
C17_Witness ==
    /\ Root = IdProj
    /\ CollectReturned
    /\ ~Collecting
    /\ CountOp("list") = 5
    /\ Len(results) = 4

(***************************************************************************)
(* C18: whenever collect or publish has raised a failure in the current    *)
(* request, the request has ended with a terminal response whose text      *)
(* carries the failure's kind and message.                                 *)
(***************************************************************************)
C18_FailureSurfaced ==
    err # NoErr =>
        /\ pc = "done"
        /\ resp.ended
        /\ Last(resp.body) = "Error: " \o ErrString(err)

\* the tree entries of the commit that sha names
ItemsOfCommit(sha) == sha[3][2]

\* the current request has created its repository
RepoCreated == HostLog # << >> /\ HostLog[1].op = "createRepo" /\ HostLog[1].res = "ok"

(***************************************************************************)
(* C19: in every state, after a failure too, a repository whose main       *)
(* exists holds the commit main points at, that commit's tree and the      *)
(* blobs of all the tree's entries, and holds no blob outside that tree.   *)
(* For the repository the current request created, main exists only when   *)
(* every blob call, the tree call and the commit call have succeeded; the  *)
(* tree of main's commit then has exactly one entry per file of the file   *)
(* set, with that file's path and the blob of that file's content.  After  *)
(* a failure main does not exist.                                          *)
(***************************************************************************)
C19_MainOverCompleteFileSet ==
    /\ \A n \in DOMAIN repos :
          LET r == repos[n] IN
          r.main # NoSha =>
              /\ r.main \in r.commits
              /\ r.main[3] \in r.trees
              /\ Len(ItemsOfCommit(r.main)) >= 1
              /\ {ItemsOfCommit(r.main)[k].sha : k \in 1..Len(ItemsOfCommit(r.main))} = r.blobs
    /\ RepoCreated =>
          LET r == repos[repoName] IN
          /\ err # NoErr => r.main = NoSha
          /\ r.main # NoSha =>
                LET items == ItemsOfCommit(r.main) IN
                /\ Len(BlobLog) = Len(files)
                /\ \A k \in 1..Len(BlobLog) : BlobLog[k].res = "ok"
                /\ CountOp("createTree") = 1 /\ TreeLog[1].res = "ok"
                /\ r.main[3] = TreeLog[1].ret
                /\ CountOp("createCommit") = 1
                /\ \A j \in 1..Len(log) :
                      log[j].op = "createCommit" => log[j].res = "ok" /\ log[j].ret = r.main
                /\ Len(items) = Len(files)
                /\ \A k \in 1..Len(files) :
                      /\ items[k].path = files[k].path
                      /\ items[k].sha = BlobLog[k].ret
                      /\ Base64Decode(BlobLog[k].arg) = files[k].buffer

\* a second request failed at its tree call while the repository of the first,
\* published from four files, keeps its main
C19_Witness ==
    /\ nreq = 2
    /\ RepoCreated
    /\ err # NoErr
    /\ Last(log).op = "createTree"
    /\ repos[repoName].main = NoSha
    /\ repos[repoName].blobs # {}
    /\ \E n \in DOMAIN repos :
          /\ repos[n].main # NoSha
          /\ Len(ItemsOfCommit(repos[n].main)) = 4

(***************************************************************************)
(* C20: a request makes a source-service call only when the session holds  *)
(* a Google credential and githubToken, repoName and driveLinkOrId are all *)
(* non-empty; it makes a hosting-service call only after collect has       *)
(* returned, without a failed source-service call, a collection of at      *)
(* least one file; a collect that returns no file ends the request with    *)
(* 'No files found' and without any hosting-service call.                  *)
(***************************************************************************)
C20_HandlerGuards ==
    /\ (log # << >> \/ Running) =>
          /\ session
          /\ req.githubToken # ""
          /\ req.repoName # ""
          /\ req.driveLinkOrId # ""
    /\ (HostLog # << >> \/ pc \in {"createRepo", "createBlob", "createTree",
                                   "createCommit", "createRef"}) =>
          /\ CollectReturned
          /\ Len(files) >= 1
          /\ \A j \in 1..Len(log) : log[j].op \in DriveOps => log[j].res = "ok"
    /\ (CollectReturned /\ Len(results) = 0) =>
          /\ pc = "done"
          /\ resp.ended
          /\ Last(resp.body) = "<p>No files found.</p>"
          /\ HostLog = << >>
          /\ err = NoErr

\* the request for the empty folder has ended: two Drive calls, no hosting call
C20_Witness ==
    /\ req.driveLinkOrId = "idEmpty"
    /\ pc = "done"
    /\ Len(log) = 2
    /\ HostLog = << >>
    /\ resp.body = <<"<p>Collecting files from Google Drive</p>", "<p>No files found.</p>">>
    /\ resp.ended

====
